---- MODULE Spec2Model ----
(***************************************************************************)
(* Model of the rule-based parsing pipeline of src/app.py: normalize,      *)
(* tokenize, the keyword extractors, build_quantum_ready_vector and the    *)
(* /parse handler parse_query.                                             *)
(*                                                                         *)
(* Representation:                                                         *)
(*   - a Python str is the sequence of its Unicode code points, so that    *)
(*     every character of a query is a value of the model; Str("roof") is  *)
(*     the str written "roof" in the source;                               *)
(*   - Optional[str] is None == <<>> or Some(v) == <<v>>;                  *)
(*   - a dict is a sequence of <<key, value>> pairs in insertion order     *)
(*     (Python dicts iterate in insertion order);                          *)
(*   - a float of the feature vector is the integer number of tenths       *)
(*     (0.1 is 1, 1.0 is 10); every float of the source is a multiple of   *)
(*     0.1 and the code never does arithmetic on them.                     *)
(* The character tables of str.lower(), str.isspace() and the \s class     *)
(* are those of the Unicode 14.0.0 database of CPython 3.11.               *)
(***************************************************************************)
EXTENDS Integers, Sequences, FiniteSets, TLC

VARIABLES
    SERVICE_KEYWORDS,   \* module global dict, app.py:33
    URGENCY_KEYWORDS,   \* module global dict, app.py:51
    BUDGET_KEYWORDS,    \* module global dict, app.py:61
    STOPWORDS,          \* module global set,  app.py:70
    call,               \* the function invoked and its argument (sequential runs)
    ret,                \* Some(its return value), None while it runs
    threads             \* the in-flight /parse requests (concurrent runs)

vars == <<SERVICE_KEYWORDS, URGENCY_KEYWORDS, BUDGET_KEYWORDS, STOPWORDS,
          call, ret, threads>>

tables == <<SERVICE_KEYWORDS, URGENCY_KEYWORDS, BUDGET_KEYWORDS, STOPWORDS>>

----------------------------------------------------------------------------
(* Optional values *)

None == <<>>

Some(v) == <<v>>

\* Python truthiness of an Optional[str]: None and "" are falsy.
Truthy(o) == o /= None /\ o[1] /= <<>>

----------------------------------------------------------------------------
(* str literals of the source as code point sequences *)

\* the characters of code 32..95 and 97..126, in code order
Ascii32to95 == " !\"#$%&'()*+,-./0123456789:;<=>?@ABCDEFGHIJKLMNOPQRSTUVWXYZ[\\]^_"

Ascii97to126 == "abcdefghijklmnopqrstuvwxyz{|}~"

IndexIn(ch, chars) == CHOOSE i \in 1..Len(chars) : SubSeq(chars, i, i) = ch

\* ord() of one character of a literal
CodeOf(ch) ==
    IF ch = "\t" THEN 9
    ELSE IF ch = "\n" THEN 10
    ELSE IF ch = "\f" THEN 12
    ELSE IF ch = "\r" THEN 13
    ELSE IF \E i \in 1..Len(Ascii97to126) : SubSeq(Ascii97to126, i, i) = ch
         THEN 96 + IndexIn(ch, Ascii97to126)
         ELSE 31 + IndexIn(ch, Ascii32to95)

RECURSIVE Str(_)
Str(literal) ==
    IF literal = "" THEN <<>>
    ELSE <<CodeOf(SubSeq(literal, 1, 1))>> \o Str(SubSeq(literal, 2, Len(literal)))

\* a dict literal with str keys and str values
StrDict(literal) == [i \in 1..Len(literal) |-> <<Str(literal[i][1]), Str(literal[i][2])>>]

\* a list literal of str
StrList(literal) == [i \in 1..Len(literal) |-> Str(literal[i])]

----------------------------------------------------------------------------
(* Characters and Python's str / re primitives *)

\* the least and the greatest element of a non-empty set of integers
Min(S) == CHOOSE m \in S : \A n \in S : m <= n

Max(S) == CHOOSE m \in S : \A n \in S : m >= n

\* the code points for which str.isspace() holds; the \s class of a str
\* pattern, str.strip() and str.split() use the same set
WhitespaceCodes ==
    {9, 10, 11, 12, 13, 28, 29, 30, 31, 32, 133, 160, 5760}
        \cup 8192..8202 \cup {8232, 8233, 8239, 8287, 12288}

IsSpace(c) == c \in WhitespaceCodes

\* the class [a-z0-9]
IsLowerAlnum(c) == c \in 97..122 \/ c \in 48..57

\* Simple lower-case mappings of the non-ASCII code points, as
\* <<first, last, step, delta>>: first, first+step, ..., last map to +delta.
LowerRanges ==
    << <<192,214,1,32>>, <<216,222,1,32>>, <<256,302,2,1>>, <<306,310,2,1>>,
       <<313,327,2,1>>, <<330,374,2,1>>, <<376,376,1,-121>>, <<377,381,2,1>>,
       <<385,385,1,210>>, <<386,388,2,1>>, <<390,390,1,206>>, <<391,391,1,1>>,
       <<393,394,1,205>>, <<395,395,1,1>>, <<398,398,1,79>>, <<399,399,1,202>>,
       <<400,400,1,203>>, <<401,401,1,1>>, <<403,403,1,205>>,
       <<404,404,1,207>>, <<406,406,1,211>>, <<407,407,1,209>>,
       <<408,408,1,1>>, <<412,412,1,211>>, <<413,413,1,213>>,
       <<415,415,1,214>>, <<416,420,2,1>>, <<422,422,1,218>>, <<423,423,1,1>>,
       <<425,425,1,218>>, <<428,428,1,1>>, <<430,430,1,218>>, <<431,431,1,1>>,
       <<433,434,1,217>>, <<435,437,2,1>>, <<439,439,1,219>>, <<440,440,1,1>>,
       <<444,444,1,1>>, <<452,452,1,2>>, <<453,453,1,1>>, <<455,455,1,2>>,
       <<456,456,1,1>>, <<458,458,1,2>>, <<459,475,2,1>>, <<478,494,2,1>>,
       <<497,497,1,2>>, <<498,500,2,1>>, <<502,502,1,-97>>, <<503,503,1,-56>>,
       <<504,542,2,1>>, <<544,544,1,-130>>, <<546,562,2,1>>,
       <<570,570,1,10795>>, <<571,571,1,1>>, <<573,573,1,-163>>,
       <<574,574,1,10792>>, <<577,577,1,1>>, <<579,579,1,-195>>,
       <<580,580,1,69>>, <<581,581,1,71>>, <<582,590,2,1>>, <<880,882,2,1>>,
       <<886,886,1,1>>, <<895,895,1,116>>, <<902,902,1,38>>, <<904,906,1,37>>,
       <<908,908,1,64>>, <<910,911,1,63>>, <<913,929,1,32>>, <<932,939,1,32>>,
       <<975,975,1,8>>, <<984,1006,2,1>>, <<1012,1012,1,-60>>,
       <<1015,1015,1,1>>, <<1017,1017,1,-7>>, <<1018,1018,1,1>>,
       <<1021,1023,1,-130>>, <<1024,1039,1,80>>, <<1040,1071,1,32>>,
       <<1120,1152,2,1>>, <<1162,1214,2,1>>, <<1216,1216,1,15>>,
       <<1217,1229,2,1>>, <<1232,1326,2,1>>, <<1329,1366,1,48>>,
       <<4256,4293,1,7264>>, <<4295,4295,1,7264>>, <<4301,4301,1,7264>>,
       <<5024,5103,1,38864>>, <<5104,5109,1,8>>, <<7312,7354,1,-3008>>,
       <<7357,7359,1,-3008>>, <<7680,7828,2,1>>, <<7838,7838,1,-7615>>,
       <<7840,7934,2,1>>, <<7944,7951,1,-8>>, <<7960,7965,1,-8>>,
       <<7976,7983,1,-8>>, <<7992,7999,1,-8>>, <<8008,8013,1,-8>>,
       <<8025,8031,2,-8>>, <<8040,8047,1,-8>>, <<8072,8079,1,-8>>,
       <<8088,8095,1,-8>>, <<8104,8111,1,-8>>, <<8120,8121,1,-8>>,
       <<8122,8123,1,-74>>, <<8124,8124,1,-9>>, <<8136,8139,1,-86>>,
       <<8140,8140,1,-9>>, <<8152,8153,1,-8>>, <<8154,8155,1,-100>>,
       <<8168,8169,1,-8>>, <<8170,8171,1,-112>>, <<8172,8172,1,-7>>,
       <<8184,8185,1,-128>>, <<8186,8187,1,-126>>, <<8188,8188,1,-9>>,
       <<8486,8486,1,-7517>>, <<8490,8490,1,-8383>>, <<8491,8491,1,-8262>>,
       <<8498,8498,1,28>>, <<8544,8559,1,16>>, <<8579,8579,1,1>>,
       <<9398,9423,1,26>>, <<11264,11311,1,48>>, <<11360,11360,1,1>>,
       <<11362,11362,1,-10743>>, <<11363,11363,1,-3814>>,
       <<11364,11364,1,-10727>>, <<11367,11371,2,1>>, <<11373,11373,1,-10780>>,
       <<11374,11374,1,-10749>>, <<11375,11375,1,-10783>>,
       <<11376,11376,1,-10782>>, <<11378,11378,1,1>>, <<11381,11381,1,1>>,
       <<11390,11391,1,-10815>>, <<11392,11490,2,1>>, <<11499,11501,2,1>>,
       <<11506,11506,1,1>>, <<42560,42604,2,1>>, <<42624,42650,2,1>>,
       <<42786,42798,2,1>>, <<42802,42862,2,1>>, <<42873,42875,2,1>>,
       <<42877,42877,1,-35332>>, <<42878,42886,2,1>>, <<42891,42891,1,1>>,
       <<42893,42893,1,-42280>>, <<42896,42898,2,1>>, <<42902,42920,2,1>>,
       <<42922,42922,1,-42308>>, <<42923,42923,1,-42319>>,
       <<42924,42924,1,-42315>>, <<42925,42925,1,-42305>>,
       <<42926,42926,1,-42308>>, <<42928,42928,1,-42258>>,
       <<42929,42929,1,-42282>>, <<42930,42930,1,-42261>>,
       <<42931,42931,1,928>>, <<42932,42946,2,1>>, <<42948,42948,1,-48>>,
       <<42949,42949,1,-42307>>, <<42950,42950,1,-35384>>, <<42951,42953,2,1>>,
       <<42960,42960,1,1>>, <<42966,42968,2,1>>, <<42997,42997,1,1>>,
       <<65313,65338,1,32>>, <<66560,66599,1,40>>, <<66736,66771,1,40>>,
       <<66928,66938,1,39>>, <<66940,66954,1,39>>, <<66956,66962,1,39>>,
       <<66964,66965,1,39>>, <<68736,68786,1,64>>, <<71840,71871,1,32>>,
       <<93760,93791,1,32>>, <<125184,125217,1,34>> >>

\* the code points with the Cased property, as <<first, last>>
CasedRanges ==
    << <<65,90>>, <<97,122>>, <<170,170>>, <<181,181>>, <<186,186>>,
       <<192,214>>, <<216,246>>, <<248,442>>, <<444,447>>, <<452,659>>,
       <<661,696>>, <<704,705>>, <<736,740>>, <<837,837>>, <<880,883>>,
       <<886,887>>, <<890,893>>, <<895,895>>, <<902,902>>, <<904,906>>,
       <<908,908>>, <<910,929>>, <<931,1013>>, <<1015,1153>>, <<1162,1327>>,
       <<1329,1366>>, <<1376,1416>>, <<4256,4293>>, <<4295,4295>>,
       <<4301,4301>>, <<4304,4346>>, <<4349,4351>>, <<5024,5109>>,
       <<5112,5117>>, <<7296,7304>>, <<7312,7354>>, <<7357,7359>>,
       <<7424,7615>>, <<7680,7957>>, <<7960,7965>>, <<7968,8005>>,
       <<8008,8013>>, <<8016,8023>>, <<8025,8025>>, <<8027,8027>>,
       <<8029,8029>>, <<8031,8061>>, <<8064,8116>>, <<8118,8124>>,
       <<8126,8126>>, <<8130,8132>>, <<8134,8140>>, <<8144,8147>>,
       <<8150,8155>>, <<8160,8172>>, <<8178,8180>>, <<8182,8188>>,
       <<8305,8305>>, <<8319,8319>>, <<8336,8348>>, <<8450,8450>>,
       <<8455,8455>>, <<8458,8467>>, <<8469,8469>>, <<8473,8477>>,
       <<8484,8484>>, <<8486,8486>>, <<8488,8488>>, <<8490,8493>>,
       <<8495,8500>>, <<8505,8505>>, <<8508,8511>>, <<8517,8521>>,
       <<8526,8526>>, <<8544,8575>>, <<8579,8580>>, <<9398,9449>>,
       <<11264,11492>>, <<11499,11502>>, <<11506,11507>>, <<11520,11557>>,
       <<11559,11559>>, <<11565,11565>>, <<42560,42605>>, <<42624,42653>>,
       <<42786,42887>>, <<42891,42894>>, <<42896,42954>>, <<42960,42961>>,
       <<42963,42963>>, <<42965,42969>>, <<42997,42998>>, <<43000,43002>>,
       <<43824,43866>>, <<43868,43880>>, <<43888,43967>>, <<64256,64262>>,
       <<64275,64279>>, <<65313,65338>>, <<65345,65370>>, <<66560,66639>>,
       <<66736,66771>>, <<66776,66811>>, <<66928,66938>>, <<66940,66954>>,
       <<66956,66962>>, <<66964,66965>>, <<66967,66977>>, <<66979,66993>>,
       <<66995,67001>>, <<67003,67004>>, <<67456,67456>>, <<67459,67461>>,
       <<67463,67504>>, <<67506,67514>>, <<68736,68786>>, <<68800,68850>>,
       <<71840,71903>>, <<93760,93823>>, <<119808,119892>>, <<119894,119964>>,
       <<119966,119967>>, <<119970,119970>>, <<119973,119974>>,
       <<119977,119980>>, <<119982,119993>>, <<119995,119995>>,
       <<119997,120003>>, <<120005,120069>>, <<120071,120074>>,
       <<120077,120084>>, <<120086,120092>>, <<120094,120121>>,
       <<120123,120126>>, <<120128,120132>>, <<120134,120134>>,
       <<120138,120144>>, <<120146,120485>>, <<120488,120512>>,
       <<120514,120538>>, <<120540,120570>>, <<120572,120596>>,
       <<120598,120628>>, <<120630,120654>>, <<120656,120686>>,
       <<120688,120712>>, <<120714,120744>>, <<120746,120770>>,
       <<120772,120779>>, <<122624,122633>>, <<122635,122654>>,
       <<125184,125251>>, <<127280,127305>>, <<127312,127337>>,
       <<127344,127369>> >>

\* the code points with the Case_Ignorable property, as <<first, last>>
CaseIgnorableRanges ==
    << <<39,39>>, <<46,46>>, <<58,58>>, <<94,94>>, <<96,96>>, <<168,168>>,
       <<173,173>>, <<175,175>>, <<180,180>>, <<183,184>>, <<688,879>>,
       <<884,885>>, <<890,890>>, <<900,901>>, <<903,903>>, <<1155,1161>>,
       <<1369,1369>>, <<1375,1375>>, <<1425,1469>>, <<1471,1471>>,
       <<1473,1474>>, <<1476,1477>>, <<1479,1479>>, <<1524,1524>>,
       <<1536,1541>>, <<1552,1562>>, <<1564,1564>>, <<1600,1600>>,
       <<1611,1631>>, <<1648,1648>>, <<1750,1757>>, <<1759,1768>>,
       <<1770,1773>>, <<1807,1807>>, <<1809,1809>>, <<1840,1866>>,
       <<1958,1968>>, <<2027,2037>>, <<2042,2042>>, <<2045,2045>>,
       <<2070,2093>>, <<2137,2139>>, <<2184,2184>>, <<2192,2193>>,
       <<2200,2207>>, <<2249,2306>>, <<2362,2362>>, <<2364,2364>>,
       <<2369,2376>>, <<2381,2381>>, <<2385,2391>>, <<2402,2403>>,
       <<2417,2417>>, <<2433,2433>>, <<2492,2492>>, <<2497,2500>>,
       <<2509,2509>>, <<2530,2531>>, <<2558,2558>>, <<2561,2562>>,
       <<2620,2620>>, <<2625,2626>>, <<2631,2632>>, <<2635,2637>>,
       <<2641,2641>>, <<2672,2673>>, <<2677,2677>>, <<2689,2690>>,
       <<2748,2748>>, <<2753,2757>>, <<2759,2760>>, <<2765,2765>>,
       <<2786,2787>>, <<2810,2815>>, <<2817,2817>>, <<2876,2876>>,
       <<2879,2879>>, <<2881,2884>>, <<2893,2893>>, <<2901,2902>>,
       <<2914,2915>>, <<2946,2946>>, <<3008,3008>>, <<3021,3021>>,
       <<3072,3072>>, <<3076,3076>>, <<3132,3132>>, <<3134,3136>>,
       <<3142,3144>>, <<3146,3149>>, <<3157,3158>>, <<3170,3171>>,
       <<3201,3201>>, <<3260,3260>>, <<3263,3263>>, <<3270,3270>>,
       <<3276,3277>>, <<3298,3299>>, <<3328,3329>>, <<3387,3388>>,
       <<3393,3396>>, <<3405,3405>>, <<3426,3427>>, <<3457,3457>>,
       <<3530,3530>>, <<3538,3540>>, <<3542,3542>>, <<3633,3633>>,
       <<3636,3642>>, <<3654,3662>>, <<3761,3761>>, <<3764,3772>>,
       <<3782,3782>>, <<3784,3789>>, <<3864,3865>>, <<3893,3893>>,
       <<3895,3895>>, <<3897,3897>>, <<3953,3966>>, <<3968,3972>>,
       <<3974,3975>>, <<3981,3991>>, <<3993,4028>>, <<4038,4038>>,
       <<4141,4144>>, <<4146,4151>>, <<4153,4154>>, <<4157,4158>>,
       <<4184,4185>>, <<4190,4192>>, <<4209,4212>>, <<4226,4226>>,
       <<4229,4230>>, <<4237,4237>>, <<4253,4253>>, <<4348,4348>>,
       <<4957,4959>>, <<5906,5908>>, <<5938,5939>>, <<5970,5971>>,
       <<6002,6003>>, <<6068,6069>>, <<6071,6077>>, <<6086,6086>>,
       <<6089,6099>>, <<6103,6103>>, <<6109,6109>>, <<6155,6159>>,
       <<6211,6211>>, <<6277,6278>>, <<6313,6313>>, <<6432,6434>>,
       <<6439,6440>>, <<6450,6450>>, <<6457,6459>>, <<6679,6680>>,
       <<6683,6683>>, <<6742,6742>>, <<6744,6750>>, <<6752,6752>>,
       <<6754,6754>>, <<6757,6764>>, <<6771,6780>>, <<6783,6783>>,
       <<6823,6823>>, <<6832,6862>>, <<6912,6915>>, <<6964,6964>>,
       <<6966,6970>>, <<6972,6972>>, <<6978,6978>>, <<7019,7027>>,
       <<7040,7041>>, <<7074,7077>>, <<7080,7081>>, <<7083,7085>>,
       <<7142,7142>>, <<7144,7145>>, <<7149,7149>>, <<7151,7153>>,
       <<7212,7219>>, <<7222,7223>>, <<7288,7293>>, <<7376,7378>>,
       <<7380,7392>>, <<7394,7400>>, <<7405,7405>>, <<7412,7412>>,
       <<7416,7417>>, <<7468,7530>>, <<7544,7544>>, <<7579,7679>>,
       <<8125,8125>>, <<8127,8129>>, <<8141,8143>>, <<8157,8159>>,
       <<8173,8175>>, <<8189,8190>>, <<8203,8207>>, <<8216,8217>>,
       <<8228,8228>>, <<8231,8231>>, <<8234,8238>>, <<8288,8292>>,
       <<8294,8303>>, <<8305,8305>>, <<8319,8319>>, <<8336,8348>>,
       <<8400,8432>>, <<11388,11389>>, <<11503,11505>>, <<11631,11631>>,
       <<11647,11647>>, <<11744,11775>>, <<11823,11823>>, <<12293,12293>>,
       <<12330,12333>>, <<12337,12341>>, <<12347,12347>>, <<12441,12446>>,
       <<12540,12542>>, <<40981,40981>>, <<42232,42237>>, <<42508,42508>>,
       <<42607,42610>>, <<42612,42621>>, <<42623,42623>>, <<42652,42655>>,
       <<42736,42737>>, <<42752,42785>>, <<42864,42864>>, <<42888,42890>>,
       <<42994,42996>>, <<43000,43001>>, <<43010,43010>>, <<43014,43014>>,
       <<43019,43019>>, <<43045,43046>>, <<43052,43052>>, <<43204,43205>>,
       <<43232,43249>>, <<43263,43263>>, <<43302,43309>>, <<43335,43345>>,
       <<43392,43394>>, <<43443,43443>>, <<43446,43449>>, <<43452,43453>>,
       <<43471,43471>>, <<43493,43494>>, <<43561,43566>>, <<43569,43570>>,
       <<43573,43574>>, <<43587,43587>>, <<43596,43596>>, <<43632,43632>>,
       <<43644,43644>>, <<43696,43696>>, <<43698,43700>>, <<43703,43704>>,
       <<43710,43711>>, <<43713,43713>>, <<43741,43741>>, <<43756,43757>>,
       <<43763,43764>>, <<43766,43766>>, <<43867,43871>>, <<43881,43883>>,
       <<44005,44005>>, <<44008,44008>>, <<44013,44013>>, <<64286,64286>>,
       <<64434,64450>>, <<65024,65039>>, <<65043,65043>>, <<65056,65071>>,
       <<65106,65106>>, <<65109,65109>>, <<65279,65279>>, <<65287,65287>>,
       <<65294,65294>>, <<65306,65306>>, <<65342,65342>>, <<65344,65344>>,
       <<65392,65392>>, <<65438,65439>>, <<65507,65507>>, <<65529,65531>>,
       <<66045,66045>>, <<66272,66272>>, <<66422,66426>>, <<67456,67461>>,
       <<67463,67504>>, <<67506,67514>>, <<68097,68099>>, <<68101,68102>>,
       <<68108,68111>>, <<68152,68154>>, <<68159,68159>>, <<68325,68326>>,
       <<68900,68903>>, <<69291,69292>>, <<69446,69456>>, <<69506,69509>>,
       <<69633,69633>>, <<69688,69702>>, <<69744,69744>>, <<69747,69748>>,
       <<69759,69761>>, <<69811,69814>>, <<69817,69818>>, <<69821,69821>>,
       <<69826,69826>>, <<69837,69837>>, <<69888,69890>>, <<69927,69931>>,
       <<69933,69940>>, <<70003,70003>>, <<70016,70017>>, <<70070,70078>>,
       <<70089,70092>>, <<70095,70095>>, <<70191,70193>>, <<70196,70196>>,
       <<70198,70199>>, <<70206,70206>>, <<70367,70367>>, <<70371,70378>>,
       <<70400,70401>>, <<70459,70460>>, <<70464,70464>>, <<70502,70508>>,
       <<70512,70516>>, <<70712,70719>>, <<70722,70724>>, <<70726,70726>>,
       <<70750,70750>>, <<70835,70840>>, <<70842,70842>>, <<70847,70848>>,
       <<70850,70851>>, <<71090,71093>>, <<71100,71101>>, <<71103,71104>>,
       <<71132,71133>>, <<71219,71226>>, <<71229,71229>>, <<71231,71232>>,
       <<71339,71339>>, <<71341,71341>>, <<71344,71349>>, <<71351,71351>>,
       <<71453,71455>>, <<71458,71461>>, <<71463,71467>>, <<71727,71735>>,
       <<71737,71738>>, <<71995,71996>>, <<71998,71998>>, <<72003,72003>>,
       <<72148,72151>>, <<72154,72155>>, <<72160,72160>>, <<72193,72202>>,
       <<72243,72248>>, <<72251,72254>>, <<72263,72263>>, <<72273,72278>>,
       <<72281,72283>>, <<72330,72342>>, <<72344,72345>>, <<72752,72758>>,
       <<72760,72765>>, <<72767,72767>>, <<72850,72871>>, <<72874,72880>>,
       <<72882,72883>>, <<72885,72886>>, <<73009,73014>>, <<73018,73018>>,
       <<73020,73021>>, <<73023,73029>>, <<73031,73031>>, <<73104,73105>>,
       <<73109,73109>>, <<73111,73111>>, <<73459,73460>>, <<78896,78904>>,
       <<92912,92916>>, <<92976,92982>>, <<92992,92995>>, <<94031,94031>>,
       <<94095,94111>>, <<94176,94177>>, <<94179,94180>>, <<110576,110579>>,
       <<110581,110587>>, <<110589,110590>>, <<113821,113822>>,
       <<113824,113827>>, <<118528,118573>>, <<118576,118598>>,
       <<119143,119145>>, <<119155,119170>>, <<119173,119179>>,
       <<119210,119213>>, <<119362,119364>>, <<121344,121398>>,
       <<121403,121452>>, <<121461,121461>>, <<121476,121476>>,
       <<121499,121503>>, <<121505,121519>>, <<122880,122886>>,
       <<122888,122904>>, <<122907,122913>>, <<122915,122916>>,
       <<122918,122922>>, <<123184,123197>>, <<123566,123566>>,
       <<123628,123631>>, <<125136,125142>>, <<125252,125259>>,
       <<127995,127999>>, <<917505,917505>>, <<917536,917631>>,
       <<917760,917999>> >>

InRanges(c, ranges) == \E i \in 1..Len(ranges) : ranges[i][1] <= c /\ c <= ranges[i][2]

\* the Cased property
IsCased(c) == InRanges(c, CasedRanges)

\* the Case_Ignorable property
IsCaseIgnorable(c) == InRanges(c, CaseIgnorableRanges)

\* U+03A3 is in the Final_Sigma context: the nearest character before it
\* that is not case-ignorable is cased, and the nearest one after it, if
\* any, is not cased
FinalSigma(s, i) ==
    LET before == {j \in 1..(i - 1) : ~IsCaseIgnorable(s[j])}
        after  == {j \in (i + 1)..Len(s) : ~IsCaseIgnorable(s[j])}
    IN  /\ before /= {}
        /\ IsCased(s[Max(before)])
        /\ after = {} \/ ~IsCased(s[Min(after)])

\* the lower-case form of the character at position i of s
LowerChar(s, i) ==
    LET c == s[i]
    IN  IF c < 128 THEN <<IF c \in 65..90 THEN c + 32 ELSE c>>
        ELSE IF c = 931 THEN <<IF FinalSigma(s, i) THEN 962 ELSE 963>>
        ELSE IF c = 304 THEN <<105, 775>>
        ELSE LET hits == {k \in 1..Len(LowerRanges) :
                             /\ LowerRanges[k][1] <= c
                             /\ c <= LowerRanges[k][2]
                             /\ (c - LowerRanges[k][1]) % LowerRanges[k][3] = 0}
             IN  IF hits = {} THEN <<c>>
                 ELSE <<c + LowerRanges[CHOOSE k \in hits : TRUE][4]>>

RECURSIVE lower_from(_, _)
lower_from(s, i) ==
    IF i > Len(s) THEN <<>> ELSE LowerChar(s, i) \o lower_from(s, i + 1)

\* str.lower()
str_lower(s) == lower_from(s, 1)

\* re.sub(r"[^a-z0-9\s]", " ", text)
sub_non_alnum(s) ==
    [i \in 1..Len(s) |-> IF IsLowerAlnum(s[i]) \/ IsSpace(s[i]) THEN s[i] ELSE 32]

\* str.lstrip()
RECURSIVE str_lstrip(_)
str_lstrip(s) ==
    IF s /= <<>> /\ IsSpace(Head(s)) THEN str_lstrip(Tail(s)) ELSE s

\* str.rstrip()
RECURSIVE str_rstrip(_)
str_rstrip(s) ==
    IF s /= <<>> /\ IsSpace(s[Len(s)])
    THEN str_rstrip(SubSeq(s, 1, Len(s) - 1))
    ELSE s

\* str.strip()
str_strip(s) == str_rstrip(str_lstrip(s))

\* re.sub(r"\s+", " ", text): every maximal run of whitespace becomes " "
RECURSIVE sub_whitespace(_)
sub_whitespace(s) ==
    IF s = <<>> THEN <<>>
    ELSE IF IsSpace(Head(s))
         THEN <<32>> \o sub_whitespace(str_lstrip(s))
         ELSE <<Head(s)>> \o sub_whitespace(Tail(s))

\* the longest prefix of s without whitespace
RECURSIVE first_word(_)
first_word(s) ==
    IF s = <<>> \/ IsSpace(Head(s)) THEN <<>>
    ELSE <<Head(s)>> \o first_word(Tail(s))

\* str.split() without arguments: the maximal whitespace-free runs, in order
RECURSIVE str_split(_)
str_split(s) ==
    LET t == str_lstrip(s)
    IN  IF t = <<>> THEN <<>>
        ELSE LET w == first_word(t)
             IN  <<w>> \o str_split(SubSeq(t, Len(w) + 1, Len(t)))

\* the str operator "k in text"
str_contains(k, text) ==
    \E i \in 1..(Len(text) - Len(k) + 1) : SubSeq(text, i, i + Len(k) - 1) = k

----------------------------------------------------------------------------
(* dict primitives over insertion-ordered pair sequences *)

dict_has(d, k) == \E i \in 1..Len(d) : d[i][1] = k

dict_get(d, k) == d[CHOOSE i \in 1..Len(d) : d[i][1] = k][2]

\* modifiers[k] = v on a Dict[str, str] held as a function
dict_set(m, k, v) == [x \in DOMAIN m \cup {k} |-> IF x = k THEN v ELSE m[x]]

----------------------------------------------------------------------------
(* The lookup tables as the module defines them *)

SERVICE_KEYWORDS_0 ==
    StrDict(<< <<"plumber", "plumbing">>, <<"plumbing", "plumbing">>,
               <<"leak", "leak">>, <<"pipe", "leak">>, <<"drain", "drain">>,
               <<"toilet", "toilet">>, <<"roof", "roofing">>,
               <<"roofer", "roofing">>, <<"hvac", "hvac">>,
               <<"air conditioner", "hvac">>, <<"furnace", "hvac">>,
               <<"electrician", "electrical">>, <<"electrical", "electrical">>,
               <<"cement", "cement">>, <<"concrete", "cement">> >>)

URGENCY_KEYWORDS_0 ==
    StrDict(<< <<"now", "emergency">>, <<"asap", "emergency">>,
               <<"urgent", "emergency">>, <<"tonight", "emergency">>,
               <<"today", "same_day">>, <<"tomorrow", "soon">>,
               <<"whenever", "flexible">> >>)

BUDGET_KEYWORDS_0 ==
    StrDict(<< <<"cheap", "low">>, <<"affordable", "low">>, <<"budget", "low">>,
               <<"expensive", "high">>, <<"premium", "high">>,
               <<"fair price", "medium">> >>)

STOPWORDS_0 ==
    {Str(w) : w \in
        {"i", "need", "a", "an", "the", "to", "for", "my", "in", "at", "on",
         "of", "please", "help", "with", "and", "is", "it", "that", "can", "you"}}

SERVICE_TYPES ==
    StrList(<<"leak", "drain", "toilet", "roof", "hvac", "cement", "concrete">>)

\* the str literals the functions return or append
SERVICE_SUFFIX == Str("_service")

GENERAL_SERVICE == Str("general_service")

----------------------------------------------------------------------------
(* The pipeline *)

\* variant: the result is not stripped
normalize_no_strip(text) == sub_whitespace(sub_non_alnum(str_lower(text)))

normalize(text) == str_strip(sub_whitespace(sub_non_alnum(str_lower(text))))

tokenize(text) == SelectSeq(str_split(text), LAMBDA t : t \notin STOPWORDS)

\* variant: the table is scanned and the first key found among the tokens wins
extract_primary_intent_by_table_order(tokens) ==
    LET hits == {i \in 1..Len(SERVICE_KEYWORDS) :
                    \E j \in 1..Len(tokens) : tokens[j] = SERVICE_KEYWORDS[i][1]}
    IN  IF hits = {} THEN GENERAL_SERVICE
        ELSE SERVICE_KEYWORDS[Min(hits)][2] \o SERVICE_SUFFIX

RECURSIVE extract_primary_intent(_)
extract_primary_intent(tokens) ==
    IF tokens = <<>> THEN GENERAL_SERVICE
    ELSE IF dict_has(SERVICE_KEYWORDS, Head(tokens))
         THEN dict_get(SERVICE_KEYWORDS, Head(tokens)) \o SERVICE_SUFFIX
         ELSE extract_primary_intent(Tail(tokens))

\* variant: the list is scanned and the first entry found among the tokens wins
extract_service_type_by_list_order(tokens) ==
    LET hits == {i \in 1..Len(SERVICE_TYPES) :
                    \E j \in 1..Len(tokens) : tokens[j] = SERVICE_TYPES[i]}
    IN  IF hits = {} THEN None ELSE Some(SERVICE_TYPES[Min(hits)])

RECURSIVE extract_service_type(_)
extract_service_type(tokens) ==
    IF tokens = <<>> THEN None
    ELSE IF \E i \in 1..Len(SERVICE_TYPES) : SERVICE_TYPES[i] = Head(tokens)
         THEN Some(Head(tokens))
         ELSE extract_service_type(Tail(tokens))

\* variant: the operands of "in" are exchanged (text in k)
RECURSIVE first_phrase_label_swapped(_, _)
first_phrase_label_swapped(d, text) ==
    IF d = <<>> THEN None
    ELSE IF str_contains(text, Head(d)[1]) THEN Some(Head(d)[2])
         ELSE first_phrase_label_swapped(Tail(d), text)

\* for k, v in d.items(): if k in text: return v  /  return None
RECURSIVE first_phrase_label(_, _)
first_phrase_label(d, text) ==
    IF d = <<>> THEN None
    ELSE IF str_contains(Head(d)[1], text) THEN Some(Head(d)[2])
         ELSE first_phrase_label(Tail(d), text)

\* variant: the phrase that stands first in the text wins
extract_urgency_by_position(text) ==
    LET found == {i \in 1..Len(URGENCY_KEYWORDS) : str_contains(URGENCY_KEYWORDS[i][1], text)}
        pos(i) == Min({p \in 1..(Len(text) - Len(URGENCY_KEYWORDS[i][1]) + 1) :
                        SubSeq(text, p, p + Len(URGENCY_KEYWORDS[i][1]) - 1)
                            = URGENCY_KEYWORDS[i][1]})
    IN  IF found = {} THEN None
        ELSE Some(URGENCY_KEYWORDS[CHOOSE i \in found : \A j \in found : pos(i) <= pos(j)][2])

extract_urgency(text) == first_phrase_label(URGENCY_KEYWORDS, text)

extract_budget(text) == first_phrase_label(BUDGET_KEYWORDS, text)

\* dict.get(key, default)
dict_get_default(d, k, default) == IF dict_has(d, k) THEN dict_get(d, k) ELSE default

\* the three local tables of build_quantum_ready_vector, values in tenths
intent_map ==
    << <<Str("plumbing_service"), 1>>, <<Str("roofing_service"), 2>>,
       <<Str("hvac_service"), 3>>, <<Str("electrical_service"), 4>>,
       <<Str("cement_service"), 5>>, <<Str("general_service"), 0>> >>

urgency_map ==
    << <<Some(Str("emergency")), 10>>, <<Some(Str("same_day")), 7>>,
       <<Some(Str("soon")), 5>>, <<Some(Str("flexible")), 2>>, <<None, 0>> >>

budget_map ==
    << <<Some(Str("low")), 2>>, <<Some(Str("medium")), 5>>,
       <<Some(Str("high")), 8>>, <<None, 0>> >>

\* variant: urgency and budget change places in the vector
build_quantum_ready_vector_swapped(parsed) ==
    <<dict_get_default(intent_map, parsed.primary_intent, 0),
      dict_get_default(budget_map, parsed.budget_sensitivity, 0),
      dict_get_default(urgency_map, parsed.urgency, 0)>>

build_quantum_ready_vector(parsed) ==
    LET intent_val  == dict_get_default(intent_map, parsed.primary_intent, 0)
        urgency_val == dict_get_default(urgency_map, parsed.urgency, 0)
        budget_val  == dict_get_default(budget_map, parsed.budget_sensitivity, 0)
    IN  <<intent_val, urgency_val, budget_val>>

\* the keys of the modifiers dict
USER_ROLE_KEY == Str("user_role")

CHANNEL_KEY == Str("channel")

\* the two conditional insertions into the fresh modifiers dict
build_modifiers(payload) ==
    LET m0 == <<>>
        m1 == IF Truthy(payload.user_role)
              THEN dict_set(m0, USER_ROLE_KEY, payload.user_role[1]) ELSE m0
        m2 == IF Truthy(payload.channel)
              THEN dict_set(m1, CHANNEL_KEY, payload.channel[1]) ELSE m1
    IN  m2

\* ParsedQuery(...) as parse_query constructs it: the vector keeps its default
ParsedQuery(primary_intent, service_type, urgency, budget, location, modifiers) ==
    [ primary_intent       |-> primary_intent,
      service_type         |-> service_type,
      urgency              |-> urgency,
      budget_sensitivity   |-> budget,
      location             |-> location,
      modifiers            |-> modifiers,
      quantum_ready_vector |-> None ]

\* parsed.quantum_ready_vector = build_quantum_ready_vector(parsed)
attach_vector(parsed) ==
    [parsed EXCEPT !.quantum_ready_vector = Some(build_quantum_ready_vector(parsed))]

parse_query(payload) ==
    LET normalized == normalize(payload.query)
        tokens     == tokenize(normalized)
        parsed     == ParsedQuery(extract_primary_intent(tokens),
                                  extract_service_type(tokens),
                                  extract_urgency(normalized),
                                  extract_budget(normalized),
                                  payload.location,
                                  build_modifiers(payload))
    IN  attach_vector(parsed)

----------------------------------------------------------------------------
(* Bounds and the inputs they generate *)

MaxStrLen == 4

MaxTokens == 3

MaxWords == 3

MaxPieces == 2

\* characters of each class normalize distinguishes: a, Z, 7, space, tab,
\* comma, U+000B (whitespace outside \t\n\r\f), U+00A0 (non-ASCII
\* whitespace), U+212A KELVIN SIGN (lower-case form k) and U+0130 (lower-case
\* form i + U+0307)
StrAlphabet == {97, 90, 55, 32, 9, 44, 11, 160, 8490, 304}

RECURSIVE SeqsUpTo(_, _)
SeqsUpTo(S, n) ==
    IF n = 0 THEN {<<>>}
    ELSE LET shorter == SeqsUpTo(S, n - 1)
         IN  shorter \cup {Append(q, x) : q \in shorter, x \in S}

RECURSIVE Concat(_)
Concat(q) == IF q = <<>> THEN <<>> ELSE Head(q) \o Concat(Tail(q))

RECURSIVE JoinWords(_)
JoinWords(q) ==
    IF q = <<>> THEN <<>>
    ELSE IF Len(q) = 1 THEN q[1]
         ELSE q[1] \o <<32>> \o JoinWords(Tail(q))

\* tokens handed to extract_primary_intent
TokenVocabulary ==
    {Str(w) : w \in {"plumber", "roof", "leak", "air conditioner", "cheap", "the"}}

\* words of the normalized texts handed to extract_urgency
UrgencyWords ==
    {Str(w) : w \in {"now", "asap", "urgent", "tonight", "today", "tomorrow",
                     "whenever", "know", "roof"}}

\* fragments concatenated into queries
QueryPieces ==
    {Str(w) : w \in {"I need a ", "cheap", " Plumber", "roof", " leak", ", ",
                     "today", " tomorrow", " AIR  conditioner!", ""}}

ScenarioQueries ==
    {Str(w) : w \in
        {"I need a cheap plumber in San Jose ASAP",
         "furnace stopped working, need it fixed today",
         "",
         "roof leak, fair price please, whenever is fine",
         "   ", " \t\n", "?!.,", " - ",
         "plumber roof", "roof plumber",
         "premium roofer tomorrow", "expensive electrician, urgent"}}

\* queries with characters outside ASCII or outside \t\n\r\f:
\* "lea" + KELVIN SIGN, "roof" + U+000B + "leak", U+0130 + "t",
\* U+00A0 + U+2028, "cheap" + U+00A0 + "Plumber" + U+001C + "now",
\* GREEK CAPITAL ALPHA + GREEK CAPITAL SIGMA + " roofer", E ACUTE + "drain"
UnicodeQueries ==
    { Str("lea") \o <<8490>>,
      Str("roof") \o <<11>> \o Str("leak"),
      <<304>> \o Str("t"),
      <<160, 8232>>,
      Str("cheap") \o <<160>> \o Str("Plumber") \o <<28>> \o Str("now"),
      <<913, 931>> \o Str(" roofer"),
      <<201>> \o Str("drain") }

Queries ==
    ScenarioQueries
        \cup UnicodeQueries
        \cup {SERVICE_KEYWORDS_0[i][1] : i \in 1..Len(SERVICE_KEYWORDS_0)}
        \cup {Concat(q) : q \in SeqsUpTo(QueryPieces, MaxPieces)}

Roles == {None, Some(Str("")), Some(Str("customer")), Some(Str("property_manager"))}

Channels == {None, Some(Str("")), Some(Str("web"))}

Locations == {None, Some(Str("San Jose, CA"))}

\* RawQuery
Payloads ==
    [query : Queries, user_role : Roles, location : Locations, channel : Channels]

Calls ==
    [fn : {"normalize"}, arg : SeqsUpTo(StrAlphabet, MaxStrLen)]
        \cup [fn : {"extract_primary_intent"}, arg : SeqsUpTo(TokenVocabulary, MaxTokens)]
        \cup [fn : {"extract_urgency"},
              arg : {JoinWords(q) : q \in SeqsUpTo(UrgencyWords, MaxWords)}]
        \cup [fn : {"parse_query"}, arg : Payloads]

----------------------------------------------------------------------------
(* Sequential runs: one call of one function on one input *)

TablesInit ==
    /\ SERVICE_KEYWORDS = SERVICE_KEYWORDS_0
    /\ URGENCY_KEYWORDS = URGENCY_KEYWORDS_0
    /\ BUDGET_KEYWORDS = BUDGET_KEYWORDS_0
    /\ STOPWORDS = STOPWORDS_0

Init ==
    /\ TablesInit
    /\ call \in Calls
    /\ ret = None
    /\ threads = <<>>

Normalize ==
    /\ call.fn = "normalize" /\ ret = None
    /\ ret' = Some(normalize(call.arg))
    /\ UNCHANGED <<tables, call, threads>>

ExtractPrimaryIntent ==
    /\ call.fn = "extract_primary_intent" /\ ret = None
    /\ ret' = Some(extract_primary_intent(call.arg))
    /\ UNCHANGED <<tables, call, threads>>

ExtractUrgency ==
    /\ call.fn = "extract_urgency" /\ ret = None
    /\ ret' = Some(extract_urgency(call.arg))
    /\ UNCHANGED <<tables, call, threads>>

ParseQuery ==
    /\ call.fn = "parse_query" /\ ret = None
    /\ ret' = Some(parse_query(call.arg))
    /\ UNCHANGED <<tables, call, threads>>

Next == Normalize \/ ExtractPrimaryIntent \/ ExtractUrgency \/ ParseQuery

Spec == Init /\ [][Next]_vars

----------------------------------------------------------------------------
(* Concurrent runs: the worker threads of the server each run parse_query, *)
(* one statement at a time, in any interleaving.                           *)

MaxThreads == 2

Threads == 1..MaxThreads

ConcurrentPayloads ==
    [query : {Str("roof leak"), Str("Plumber, cheap!")},
     user_role : {None, Some(Str("customer"))},
     location : {None}, channel : {Some(Str("web"))}]

\* a thread with no request; the locals of parse_query are unbound
IdleThread ==
    [pc |-> "idle", payload |-> None, normalized |-> None, tokens |-> None,
     primary_intent |-> None, service_type |-> None, urgency |-> None,
     budget |-> None, modifiers |-> None, parsed |-> None, response |-> None]

InitConcurrent ==
    /\ TablesInit
    /\ call = [fn |-> "serve", arg |-> None]
    /\ ret = None
    /\ threads = [t \in Threads |-> IdleThread]

At(t, label) == call.fn = "serve" /\ threads[t].pc = label

\* the framework hands a validated RawQuery to parse_query
Receive(t, payload) ==
    /\ At(t, "idle")
    /\ threads' = [threads EXCEPT ![t] = [IdleThread EXCEPT !.pc = "l174", !.payload = payload]]
    /\ UNCHANGED <<tables, call, ret>>

L174(t) ==
    /\ At(t, "l174")
    /\ threads' = [threads EXCEPT ![t].normalized = normalize(threads[t].payload.query),
                                  ![t].pc = "l175"]
    /\ UNCHANGED <<tables, call, ret>>

L175(t) ==
    /\ At(t, "l175")
    /\ threads' = [threads EXCEPT ![t].tokens = tokenize(threads[t].normalized),
                                  ![t].pc = "l177"]
    /\ UNCHANGED <<tables, call, ret>>

\* variant: the matched entry is taken out of the shared table (dict.pop)
L177_pop(t) ==
    /\ At(t, "l177")
    /\ threads' = [threads EXCEPT ![t].primary_intent = extract_primary_intent(threads[t].tokens),
                                  ![t].pc = "l178"]
    /\ LET toks == threads[t].tokens
           hits == {j \in 1..Len(toks) : dict_has(SERVICE_KEYWORDS, toks[j])}
       IN  SERVICE_KEYWORDS' =
               IF hits = {} THEN SERVICE_KEYWORDS
               ELSE SelectSeq(SERVICE_KEYWORDS, LAMBDA e : e[1] /= toks[Min(hits)])
    /\ UNCHANGED <<URGENCY_KEYWORDS, BUDGET_KEYWORDS, STOPWORDS, call, ret>>

L177(t) ==
    /\ At(t, "l177")
    /\ threads' = [threads EXCEPT ![t].primary_intent = extract_primary_intent(threads[t].tokens),
                                  ![t].pc = "l178"]
    /\ UNCHANGED <<tables, call, ret>>

L178(t) ==
    /\ At(t, "l178")
    /\ threads' = [threads EXCEPT ![t].service_type = extract_service_type(threads[t].tokens),
                                  ![t].pc = "l179"]
    /\ UNCHANGED <<tables, call, ret>>

L179(t) ==
    /\ At(t, "l179")
    /\ threads' = [threads EXCEPT ![t].urgency = extract_urgency(threads[t].normalized),
                                  ![t].pc = "l180"]
    /\ UNCHANGED <<tables, call, ret>>

L180(t) ==
    /\ At(t, "l180")
    /\ threads' = [threads EXCEPT ![t].budget = extract_budget(threads[t].normalized),
                                  ![t].pc = "l182"]
    /\ UNCHANGED <<tables, call, ret>>

L182(t) ==
    /\ At(t, "l182")
    /\ threads' = [threads EXCEPT ![t].modifiers = build_modifiers(threads[t].payload),
                                  ![t].pc = "l188"]
    /\ UNCHANGED <<tables, call, ret>>

L188(t) ==
    /\ At(t, "l188")
    /\ LET l == threads[t]
       IN  threads' = [threads EXCEPT
               ![t].parsed = ParsedQuery(l.primary_intent, l.service_type, l.urgency,
                                         l.budget, l.payload.location, l.modifiers),
               ![t].pc = "l198"]
    /\ UNCHANGED <<tables, call, ret>>

L198(t) ==
    /\ At(t, "l198")
    /\ threads' = [threads EXCEPT ![t].parsed = attach_vector(threads[t].parsed),
                                  ![t].pc = "l200"]
    /\ UNCHANGED <<tables, call, ret>>

L200(t) ==
    /\ At(t, "l200")
    /\ threads' = [threads EXCEPT ![t].response = Some(threads[t].parsed),
                                  ![t].pc = "done"]
    /\ UNCHANGED <<tables, call, ret>>

\* the response has been sent; the thread goes back to the pool
Release(t) ==
    /\ At(t, "done")
    /\ threads' = [threads EXCEPT ![t] = IdleThread]
    /\ UNCHANGED <<tables, call, ret>>

NextConcurrent ==
    \E t \in Threads :
        \/ \E payload \in ConcurrentPayloads : Receive(t, payload)
        \/ L174(t) \/ L175(t) \/ L177(t) \/ L178(t) \/ L179(t) \/ L180(t)
        \/ L182(t) \/ L188(t) \/ L198(t) \/ L200(t)
        \/ Release(t)

SpecConcurrent == InitConcurrent /\ [][NextConcurrent]_vars

----------------------------------------------------------------------------
(* Properties *)

Returned(fn) == call.fn = fn /\ ret /= None

Occurs(phrase, text) ==
    \E i \in 1..Len(text) : \E j \in i..Len(text) : SubSeq(text, i, j) = phrase

DefaultPayload(query) ==
    [query |-> query, user_role |-> Some(Str("customer")), location |-> None,
     channel |-> Some(Str("web"))]

RoofLeakQuery == Str("roof leak, fair price please, whenever is fine")

\* C1 as stated: parsing "roof leak, fair price please, whenever is fine" with
\* the default role and channel and no location gives primary_intent
\* roofing_service, service_type leak, urgency flexible, budget medium.
C1_RoofLeakServiceTypeLeak ==
    (Returned("parse_query") /\ call.arg = DefaultPayload(RoofLeakQuery)) =>
        /\ ret[1].primary_intent = Str("roofing_service")
        /\ ret[1].service_type = Some(Str("leak"))
        /\ ret[1].urgency = Some(Str("flexible"))
        /\ ret[1].budget_sensitivity = Some(Str("medium"))

\* C1 amended: the same parse gives primary_intent roofing_service, urgency
\* flexible, budget medium, and service_type roof: "roof" is the first token
\* of the query that belongs to the service-type list.
C1_RoofLeakServiceTypeRoof ==
    (Returned("parse_query") /\ call.arg = DefaultPayload(RoofLeakQuery)) =>
        /\ ret[1].primary_intent = Str("roofing_service")
        /\ ret[1].service_type = Some(Str("roof"))
        /\ ret[1].urgency = Some(Str("flexible"))
        /\ ret[1].budget_sensitivity = Some(Str("medium"))

C1_Witness ==
    /\ Returned("parse_query")
    /\ call.arg = DefaultPayload(RoofLeakQuery)
    /\ ret[1].service_type /= None

ServiceEntries == {SERVICE_KEYWORDS_0[i] : i \in 1..Len(SERVICE_KEYWORDS_0)}

\* C2: extract_primary_intent returns the category, with "_service" appended,
\* of the token of smallest position that is a key of the service keyword
\* table, whatever the order of the table's entries (the table is read here as
\* a set of pairs); it returns "general_service" exactly when no token is a
\* key; <<"plumber", "roof">> gives plumbing_service and <<"roof", "plumber">>
\* gives roofing_service.
C2_FirstKeywordTokenWins ==
    Returned("extract_primary_intent") =>
        LET tokens == call.arg
            hits   == {i \in 1..Len(tokens) : \E e \in ServiceEntries : e[1] = tokens[i]}
        IN  /\ (ret[1] = Str("general_service")) <=> (hits = {})
            /\ hits /= {} =>
                   \E e \in ServiceEntries :
                       e[1] = tokens[Min(hits)] /\ ret[1] = e[2] \o Str("_service")
            /\ tokens = <<Str("plumber"), Str("roof")>> => ret[1] = Str("plumbing_service")
            /\ tokens = <<Str("roof"), Str("plumber")>> => ret[1] = Str("roofing_service")

C2_Witness ==
    /\ Returned("extract_primary_intent")
    /\ call.arg = <<Str("the"), Str("roof"), Str("plumber")>>
    /\ ret[1] = Str("roofing_service")

\* C3 as stated: modifiers has the key "user_role" exactly when the input
\* user_role is non-null, with the input value, likewise "channel", for every
\* string value including the empty string, and no other key.
C3_ModifiersIffNonNull ==
    Returned("parse_query") =>
        LET payload == call.arg
            m       == ret[1].modifiers
        IN  /\ (Str("user_role") \in DOMAIN m) <=> (payload.user_role /= None)
            /\ (Str("user_role") \in DOMAIN m) => m[Str("user_role")] = payload.user_role[1]
            /\ (Str("channel") \in DOMAIN m) <=> (payload.channel /= None)
            /\ (Str("channel") \in DOMAIN m) => m[Str("channel")] = payload.channel[1]
            /\ DOMAIN m \subseteq {Str("user_role"), Str("channel")}

\* ASCII punctuation
IsPunctuation(c) == c \in 33..47 \/ c \in 58..64 \/ c \in 91..96 \/ c \in 123..126

\* a query of whitespace and punctuation only: empty, blank, "?!.,"
IsBlankQuery(q) == \A i \in 1..Len(q) : q[i] \in WhitespaceCodes \/ IsPunctuation(q[i])

\* C4: parse_query returns a record for every query; primary_intent is a
\* string, and it is "general_service" whenever no surviving token of the
\* normalized query is a service keyword; for a query made only of
\* whitespace and punctuation (the empty query included) service_type,
\* urgency and budget_sensitivity are absent.
C4_TotalWithFallback ==
    Returned("parse_query") =>
        LET q      == call.arg.query
            r      == ret[1]
            tokens == tokenize(normalize(q))
        IN  /\ r.primary_intent \in Seq(0..1114111)
            /\ r.primary_intent /= <<>>
            /\ (\A i \in 1..Len(tokens) : \A e \in ServiceEntries : e[1] /= tokens[i])
                   => r.primary_intent = Str("general_service")
            /\ IsBlankQuery(q) =>
                   /\ r.primary_intent = Str("general_service")
                   /\ r.service_type = None
                   /\ r.urgency = None
                   /\ r.budget_sensitivity = None

C4_Witness ==
    /\ Returned("parse_query")
    /\ call.arg.query = Str("?!.,")
    /\ ret[1].primary_intent = Str("general_service")

\* C5: in every interleaving of parse calls a finished call's record is the
\* record of its own payload, two finished calls with the same payload hold
\* the same record, and the keyword tables and the stopword set are the ones
\* the module defined.
C5_CallsAreIndependent ==
    /\ TablesInit
    /\ \A t \in DOMAIN threads :
           threads[t].pc = "done" =>
               /\ threads[t].response = Some(parse_query(threads[t].payload))
               /\ \A u \in DOMAIN threads :
                      (threads[u].pc = "done" /\ threads[u].payload = threads[t].payload)
                          => threads[u].response = threads[t].response

C5_Witness ==
    /\ call.fn = "serve"
    /\ threads[1].pc = "done"
    /\ threads[2].pc = "done"
    /\ threads[1].payload = threads[2].payload
    /\ threads[1].response[1].primary_intent = Str("roofing_service")

\* the mappings of the claim, in tenths
IntentValue(intent) ==
    CASE intent = Str("plumbing_service")   -> 1
      [] intent = Str("roofing_service")    -> 2
      [] intent = Str("hvac_service")       -> 3
      [] intent = Str("electrical_service") -> 4
      [] intent = Str("cement_service")     -> 5
      [] OTHER                              -> 0

UrgencyValue(urgency) ==
    CASE urgency = Some(Str("emergency")) -> 10
      [] urgency = Some(Str("same_day"))  -> 7
      [] urgency = Some(Str("soon"))      -> 5
      [] urgency = Some(Str("flexible"))  -> 2
      [] urgency = None                   -> 0

BudgetValue(budget) ==
    CASE budget = Some(Str("low"))    -> 2
      [] budget = Some(Str("medium")) -> 5
      [] budget = Some(Str("high"))   -> 8
      [] budget = None                -> 0

\* C6: the vector of every returned record is present, has exactly 3 elements
\* and is <<intent value, urgency value, budget value>> of the record's own
\* primary_intent, urgency and budget_sensitivity; (general_service, absent,
\* absent) gives <<0, 0, 0>>.
C6_VectorOfOwnFields ==
    Returned("parse_query") =>
        LET r == ret[1]
        IN  /\ r.quantum_ready_vector /= None
            /\ Len(r.quantum_ready_vector[1]) = 3
            /\ r.quantum_ready_vector[1] =
                   <<IntentValue(r.primary_intent), UrgencyValue(r.urgency),
                     BudgetValue(r.budget_sensitivity)>>
            /\ (r.primary_intent = Str("general_service") /\ r.urgency = None
                    /\ r.budget_sensitivity = None)
                   => r.quantum_ready_vector[1] = <<0, 0, 0>>

C6_Witness ==
    /\ Returned("parse_query")
    /\ call.arg.query = Str("I need a cheap plumber in San Jose ASAP")
    /\ ret[1].quantum_ready_vector = Some(<<1, 10, 2>>)

\* C7: normalize returns a string of a-z, 0-9 and single spaces only, without
\* a leading or trailing space and without two adjacent spaces; the empty
\* string gives the empty string; normalizing the result again changes
\* nothing.
C7_NormalForm ==
    Returned("normalize") =>
        LET s == ret[1]
        IN  /\ \A i \in 1..Len(s) : s[i] \in 97..122 \/ s[i] \in 48..57 \/ s[i] = 32
            /\ s /= <<>> => (s[1] /= 32 /\ s[Len(s)] /= 32)
            /\ \A i \in 1..(Len(s) - 1) : ~(s[i] = 32 /\ s[i + 1] = 32)
            /\ call.arg = <<>> => s = <<>>
            /\ normalize(s) = s

\* the argument is U+000B, "Z", U+212A KELVIN SIGN, "7"
C7_Witness ==
    /\ Returned("normalize")
    /\ call.arg = <<11, 90, 8490, 55>>
    /\ ret[1] = Str("zk7")

UrgencyPhrases ==
    StrList(<<"now", "asap", "urgent", "tonight", "today", "tomorrow", "whenever">>)

\* C8 as stated: extract_urgency returns the label of the first phrase, in
\* the order now, asap, urgent, tonight, today, tomorrow, whenever, that
\* occurs in the text, and absent when none occurs; every text in which
\* "tomorrow" and "today" both occur yields same_day, in either word order;
\* the result is emergency, same_day, soon, flexible or absent.
C8_TodayAndTomorrowGiveSameDay ==
    Returned("extract_urgency") =>
        LET text  == call.arg
            r     == ret[1]
            found == {i \in 1..Len(UrgencyPhrases) : Occurs(UrgencyPhrases[i], text)}
        IN  /\ [i \in 1..Len(URGENCY_KEYWORDS) |-> URGENCY_KEYWORDS[i][1]] = UrgencyPhrases
            /\ found = {} => r = None
            /\ found /= {} => r = Some(URGENCY_KEYWORDS[Min(found)][2])
            /\ (Occurs(Str("tomorrow"), text) /\ Occurs(Str("today"), text))
                   => r = Some(Str("same_day"))
            /\ r \in {Some(Str("emergency")), Some(Str("same_day")), Some(Str("soon")),
                      Some(Str("flexible")), None}

\* C8 amended: extract_urgency returns the label of the first phrase, in the
\* order now, asap, urgent, tonight, today, tomorrow, whenever, that occurs
\* in the text, and absent when none occurs; a text in which "tomorrow" and
\* "today" both occur and none of now, asap, urgent, tonight occurs yields
\* same_day in either word order, and a text in which one of those four also
\* occurs yields emergency; the result is emergency, same_day, soon, flexible
\* or absent.
C8_TableOrderDecides ==
    Returned("extract_urgency") =>
        LET text  == call.arg
            r     == ret[1]
            found == {i \in 1..Len(UrgencyPhrases) : Occurs(UrgencyPhrases[i], text)}
        IN  /\ [i \in 1..Len(URGENCY_KEYWORDS) |-> URGENCY_KEYWORDS[i][1]] = UrgencyPhrases
            /\ found = {} => r = None
            /\ found /= {} => r = Some(URGENCY_KEYWORDS[Min(found)][2])
            /\ (5 \in found /\ 6 \in found /\ Min(found) >= 5) => r = Some(Str("same_day"))
            /\ (5 \in found /\ 6 \in found /\ Min(found) < 5) => r = Some(Str("emergency"))
            /\ text \in {Str("tomorrow today"), Str("today tomorrow")}
                   => r = Some(Str("same_day"))
            /\ r \in {Some(Str("emergency")), Some(Str("same_day")), Some(Str("soon")),
                      Some(Str("flexible")), None}

C8_Witness ==
    /\ Returned("extract_urgency")
    /\ call.arg = Str("tomorrow today")
    /\ ret[1] = Some(Str("same_day"))

\* C9 as stated: every primary_intent that extract_primary_intent returns is
\* a key of the intent table of the vector, so the 0.0 default for unmapped
\* intents is never taken for a record that parse_query returns.
C9_IntentVocabularyClosed ==
    /\ Returned("extract_primary_intent") => dict_has(intent_map, ret[1])
    /\ Returned("parse_query") => dict_has(intent_map, ret[1].primary_intent)

\* C10 as stated: every key of the service keyword table is a token that
\* tokenize can produce (non-empty, only a-z and 0-9, not a stopword), and
\* the query that consists of that key has the key's category, with
\* "_service" appended, as its primary_intent.
C10_EveryKeyDecidesAnIntent ==
    (Returned("parse_query") /\ dict_has(SERVICE_KEYWORDS, call.arg.query)) =>
        LET key == call.arg.query
        IN  /\ key /= <<>>
            /\ \A i \in 1..Len(key) : IsLowerAlnum(key[i])
            /\ key \notin STOPWORDS
            /\ ret[1].primary_intent = dict_get(SERVICE_KEYWORDS, key) \o Str("_service")

====
